---- MODULE Spec2Model ----
(***************************************************************************)
(* Token lifecycle of the datahub client SDK (package datahub).            *)
(*                                                                         *)
(* The client holds AuthConfig, AuthToken and Server.  Every authenticated *)
(* operation runs checkToken, which calls Authenticate when the token is   *)
(* nil or not valid; Authenticate dispatches on AuthConfig.AuthType.       *)
(* Each caller (goroutine) runs one operation at a time; an operation is   *)
(* split into steps at its reads and writes of the shared client and at    *)
(* its network exchanges, so that callers can interleave there.            *)
(*                                                                         *)
(* golang.org/x/oauth2 (required by go.mod) supplies Token.Valid and the   *)
(* token exchange used by the Basic and ClientCredentials strategies:      *)
(*   Valid()   = t != nil && t.AccessToken != "" && !t.expired()           *)
(*   expired() = !Expiry.IsZero() && Expiry.Add(-10s).Before(now)          *)
(*   a token response without access_token is an error; expires_in = 0     *)
(*   leaves Expiry zero, otherwise Expiry = now + expires_in.              *)
(***************************************************************************)
EXTENDS Integers, Sequences, FiniteSets, TLC

\* ---------------------------------------------------------------- bounds
MaxTime == 10            \* the clock runs from 0 to MaxTime seconds
TickStep == 5            \* seconds that pass in one Tick
MaxRecords == 3          \* records a dataset or query result holds at most
MaxTake == 2             \* largest page size (take / limit) a stream is opened with
MaxNext == 5             \* Next() calls made on one iterator
MaxAssertions == 2       \* JWT assertions built in one run

\* ------------------------------------------------------- program constants
AuthTypeNone == 0
AuthTypeBasic == 1
AuthTypeClientKeyAndSecret == 2
AuthTypePublicKey == 3
AuthTypeUser == 4
ExpiryDelta == 10        \* oauth2 defaultExpiryDelta, seconds
AssertionLifetime == 60  \* time.Minute * 1 of createJWTForTokenRequest, seconds

\* ------------------------------------------------------------ value sets
Callers == {1, 2}
NoExpiry == -1                              \* the zero time.Time: no expiry tracked
\* argument values of the With*Auth calls: every value given, or one of them empty
AdminArgs == {<<"x", "x">>, <<"", "x">>, <<"x", "">>}
ClientKeyAndSecretArgs == {<<"x", "x", "x", "x">>, <<"", "x", "x", "x">>, <<"x", "", "x", "x">>,
                           <<"x", "x", "", "x">>, <<"x", "x", "x", "">>}
PublicKeyArgs == {<<"x", "key">>, <<"", "key">>, <<"x", "nil">>}
UserArgs == {<<"x", "x">>, <<"", "x">>}
Endpoints == {"ep1", "ep2"}                 \* token endpoints OIDC discovery can return
AccessTokens == {"a", "b"}                  \* access tokens the token endpoint issues
ExpiresIn == {0, 5, 15}                     \* expires_in of a token response (0: absent)
DomainOps == {"GetEntities", "RunQuery", "ProcessTransaction"}

NilToken == [isNil |-> TRUE, AccessToken |-> "", Expiry |-> NoExpiry]
Token(acc, exp) == [isNil |-> FALSE, AccessToken |-> acc, Expiry |-> exp]
\* tokens a caller may inject with WithExistingToken
ExistingTokens == {NilToken, Token("", NoExpiry), Token("a", NoExpiry), Token("b", 15)}

authConfig(ty, authorizer, id, secret, audience, key) ==
    [AuthType |-> ty, Authorizer |-> authorizer, ClientID |-> id,
     ClientSecret |-> secret, Audience |-> audience, PrivateKey |-> key]

\* jwt.RegisteredClaims of a client assertion, signed with key; none for the
\* requests that carry no assertion
Assertion(sub, aud, exp, jti, key) == [sub |-> sub, aud |-> aud, exp |-> exp, jti |-> jti, key |-> key]
NoAssertion == Assertion("", "", 0, "", "nil")

Req(kind, base, path, accessToken) ==
    [kind |-> kind, base |-> base, path |-> path,
     hasAuth |-> accessToken # "", bearer |-> accessToken, assertion |-> NoAssertion]

\* ------------------------------------------- records, pages, iterators
\* the i-th record of the server's result, and the continuation token the server
\* issues for "resume after the first p records"; the client sees both as strings
Entity(i) == "entity-" \o ToString(i)
Cursor(p) == "c" \o ToString(p)

RecordsUpTo(n) == [i \in 1..n |-> Entity(i)]

\* egdm.Continuation (nil or {Token}) and egdm.EntityCollection (nil or
\* {Entities, Continuation})
NilContinuation == [isNil |-> TRUE, Token |-> ""]
Continuation(tok) == [isNil |-> FALSE, Token |-> tok]
NilCollection == [isNil |-> TRUE, Entities |-> <<>>, Continuation |-> NilContinuation]
EntityCollection(ents, cont) == [isNil |-> FALSE, Entities |-> ents, Continuation |-> cont]

\* no stream has been handed out yet.  before and left describe the iterator this
\* one was resumed from, at the time its Token() was taken: the number of Next()
\* calls made on it and the records of its batch it had not returned (before = -1:
\* not resumed)
NoStream ==
    [kind |-> "none", currentCollection |-> NilCollection, currentPos |-> 0,
     dataset |-> "", take |-> 0, startFrom |-> "", before |-> -1, left |-> 0]

\* no javascript query iterator has been handed out yet
NoIterator == [state |-> "none", dataStream |-> <<>>, readStart |-> FALSE, body |-> <<>>]

\* -------------------------------------------------------- key material
\* rsa.GenerateKey always takes 65537 as the public exponent
PublicExponent == 65537

\* an RSA private key (modulus N, public exponent E, private exponent D) and its
\* public key; nil keys have N = 0
PrivateKey(n, d) == [N |-> n, E |-> PublicExponent, D |-> d]
PublicKey(priv) == [N |-> priv.N, E |-> priv.E, D |-> 0]
NilKey == [N |-> 0, E |-> 0, D |-> 0]

\* the key pairs generateRsaKeyPair can return (toy moduli 61*53 and 53*59)
GeneratedKeys == {PrivateKey(3233, 2753), PrivateKey(3127, 1865)}

\* DER structures: x509.MarshalPKCS8PrivateKey wraps the PKCS#1 key in a
\* PrivateKeyInfo, x509.MarshalPKIXPublicKey wraps the public key in a
\* SubjectPublicKeyInfo; both name the algorithm
Der(format, algorithm, key) == [format |-> format, algorithm |-> algorithm, key |-> key]
NoDer == Der("", "", NilKey)

MarshalPKCS8PrivateKey(key) == Der("PKCS8", "RSA", key)
MarshalPKIXPublicKey(key) == Der("PKIX", "RSA", key)

\* pem.EncodeToMemory: the BEGIN line, the body, the END line
PemEncode(type, der) == [begin |-> type, body |-> der, end |-> type]

\* bytes that are no PEM block (an empty or cut-off file)
Garbage == [begin |-> "", body |-> NoDer, end |-> ""]

\* pem.Decode: the block between matching BEGIN and END lines, or nil
NilBlock == [isNil |-> TRUE, Type |-> "", Bytes |-> NoDer]
PemDecode(pemValue) ==
    IF pemValue.begin # "" /\ pemValue.begin = pemValue.end
        THEN [isNil |-> FALSE, Type |-> pemValue.begin, Bytes |-> pemValue.body]
        ELSE NilBlock

exportRsaPrivateKeyAsPem(key) == PemEncode("PRIVATE KEY", MarshalPKCS8PrivateKey(key))

\* jwt.ParseRSAPrivateKeyFromPEM: the block is parsed as PKCS#1, then as PKCS#8,
\* and has to hold an RSA key; the block type is not looked at
parseRsaPrivateKeyFromPem(pemValue) ==
    LET block == PemDecode(pemValue)
    IN  IF block.isNil THEN [err |-> "key must be PEM encoded", key |-> NilKey]
        ELSE IF block.Bytes.format \notin {"PKCS1", "PKCS8"}
            THEN [err |-> "asn1: structure error", key |-> NilKey]
        ELSE IF block.Bytes.algorithm # "RSA"
            THEN [err |-> "key is not a valid RSA private key", key |-> NilKey]
        ELSE [err |-> "", key |-> block.Bytes.key]

exportRsaPublicKeyAsPemPKCS1(key) == PemEncode("RSA PUBLIC KEY", Der("PKCS1", "RSA", key))

exportRsaPublicKeyAsPem(key) == PemEncode("PUBLIC KEY", MarshalPKIXPublicKey(key))

\* pem.Decode, x509.ParsePKIXPublicKey, and the key has to be an *rsa.PublicKey
parseRsaPublicKeyFromPem(pemValue) ==
    LET block == PemDecode(pemValue)
    IN  IF block.isNil THEN [err |-> "failed to parse PEM block containing the key", key |-> NilKey]
        ELSE IF block.Bytes.format # "PKIX"
            THEN [err |-> "asn1: structure error", key |-> NilKey]
        ELSE IF block.Bytes.algorithm # "RSA"
            THEN [err |-> "Key type is not RSA", key |-> NilKey]
        ELSE [err |-> "", key |-> block.Bytes.key]

\* a file of the key directory: absent, or present with owner permissions and content
NoFile == [exists |-> FALSE, readable |-> FALSE, writable |-> FALSE, content |-> Garbage]
File(content) == [exists |-> TRUE, readable |-> TRUE, writable |-> TRUE, content |-> content]

\* the key directory: missing, read-only or writable, with its two files
NoDisk == [dir |-> "missing", node_key |-> NoFile, node_key_pub |-> NoFile]
NoKeys == [generated |-> NilKey, saved |-> NilKey, intact |-> FALSE,
           private |-> NilKey, public |-> NilKey, targetMissing |-> FALSE]

VARIABLES
    AuthConfig,   \* Client.AuthConfig
    AuthToken,    \* Client.AuthToken
    Server,       \* Client.Server
    now,          \* wall clock, seconds
    crashed,      \* the process died of a panic
    callers,      \* the callers that use the client
    frame,        \* per caller: position, operation, locals and what it observed
    sent,         \* per caller: the network requests its current operation sent
    lastWith,     \* the last With*Auth call and its arguments
    es,           \* the EntitiesStream / QueryResultEntitiesStream a caller holds
    qri,          \* the QueryResultIterator a caller holds
    records,      \* what the server holds: the records of the dataset or query result
    pages,        \* the page requests sent for the stream, each with its answer
    returned,     \* what the Next() calls on the iterator returned, in call order
    disk,         \* the key directory and its files node_key and node_key.pub
    keys,         \* the key pairs the caller generated, saved and loaded
    assertions    \* the jti of every JWT assertion createJWTForTokenRequest has built, oldest first

vars == <<AuthConfig, AuthToken, Server, now, crashed, callers, frame, sent, lastWith,
          es, qri, records, pages, returned, disk, keys, assertions>>

\* the state outside the client: iterators, the server's data, key files
Rest == <<es, qri, records, pages, returned, disk, keys>>

\* ------------------------------------------------------- token validity
expiredNoDelta(tok, t) == tok.Expiry # NoExpiry /\ tok.Expiry < t

\* oauth2.Token.expired
expired(tok, t) == tok.Expiry # NoExpiry /\ tok.Expiry - ExpiryDelta < t

ValidRequiringExpiry(tok, t) ==
    ~tok.isNil /\ tok.AccessToken # "" /\ tok.Expiry # NoExpiry /\ ~expired(tok, t)

\* oauth2.Token.Valid
Valid(tok, t) == ~tok.isNil /\ tok.AccessToken # "" /\ ~expired(tok, t)

isTokenValidInverted(tok, t) == IF tok.isNil THEN FALSE ELSE ~Valid(tok, t)

isTokenValid(tok, t) == IF tok.isNil THEN FALSE ELSE Valid(tok, t)

\* ------------------------------------------------------------ frames
IdleFrame ==
    [pc |-> "idle", op |-> "none", result |-> "none", cause |-> "",
     attempts |-> 0, obtained |-> NilToken, outcome |-> "none",
     gateValid |-> "none", gate |-> "none", disc |-> "none", expiresIn |-> 0,
     startTok |-> NilToken, startNow |-> 0, prevOp |-> "none",
     callee |-> "none", arg |-> "", cursor |-> "", take |-> 0, bodies |-> 0,
     failedWith |-> "none"]

ConfigOps == {"WithAdminAuth", "WithClientKeyAndSecretAuth", "WithPublicKeyAuth", "WithUserAuth"}

\* the operations of dataset.go, query.go and job.go the model follows, next to DomainOps
DatasetReads == {"GetDataset", "GetChanges", "GetEntities"}
StreamOpeners == {"GetEntitiesStream", "GetChangesStream", "RunStreamingQuery"}
JobOps == {"PauseJob", "ResumeJob", "RunJobAsIncremental", "RunJobAsFullSync", "KillJob"}
GatedOps == DomainOps \cup DatasetReads \cup StreamOpeners \cup JobOps \cup {"Next", "RunJavascriptQuery"}

\* a caller enters operation o: fresh locals, remembering the client as it found it
\* and, for a repeated gate call or configuration call, the call before it
Begin(t, o) ==
    [IdleFrame EXCEPT !.op = o, !.startTok = AuthToken, !.startNow = now,
                      !.prevOp = IF \/ o = "checkToken" /\ frame[t].op = "checkToken"
                                    \/ o \in ConfigOps /\ frame[t].op \in ConfigOps
                                 THEN frame[t].op ELSE "none"]

CanCall(t) == /\ ~crashed
              /\ t \in callers
              /\ frame[t].pc = "idle"

\* nothing is being iterated and the server holds no records
NoIterators ==
    /\ es = NoStream
    /\ qri = NoIterator
    /\ records = <<>>
    /\ pages = <<>>
    /\ returned = <<>>

\* no key directory exists and no key pair has been generated
NoKeyMaterial ==
    /\ disk = NoDisk
    /\ keys = NoKeys

NewClient ==
    /\ Server \in {"srv"}
    /\ AuthConfig = authConfig(AuthTypeNone, "", "", "", "", "nil")
    /\ AuthToken = NilToken

Init ==
    /\ NewClient
    /\ now = 0
    /\ crashed = FALSE
    /\ assertions = <<>>
    /\ callers = {1}
    /\ frame = [t \in Callers |-> IdleFrame]
    /\ sent = [t \in Callers |-> <<>>]
    /\ lastWith = [fn |-> "none", a |-> "", b |-> "", c |-> "", d |-> ""]
    /\ NoIterators
    /\ NoKeyMaterial

\* ------------------------------------------------------- configuration
ConfiguredDroppingToken(t, fn, cfg, a, b, c, d) ==
    /\ CanCall(t)
    /\ AuthConfig' = cfg
    /\ AuthToken' = NilToken
    /\ lastWith' = [fn |-> fn, a |-> a, b |-> b, c |-> c, d |-> d]
    /\ frame' = [frame EXCEPT ![t] = [Begin(t, fn) EXCEPT !.result = "ok"]]
    /\ sent' = [sent EXCEPT ![t] = <<>>]
    /\ UNCHANGED <<Server, now, crashed, assertions, callers, Rest>>

\* a With*Auth call: AuthConfig is replaced, the client is returned
Configured(t, fn, cfg, a, b, c, d) ==
    /\ CanCall(t)
    /\ AuthConfig' = cfg
    /\ lastWith' = [fn |-> fn, a |-> a, b |-> b, c |-> c, d |-> d]
    /\ frame' = [frame EXCEPT ![t] = [Begin(t, fn) EXCEPT !.result = "ok"]]
    /\ sent' = [sent EXCEPT ![t] = <<>>]
    /\ UNCHANGED <<AuthToken, Server, now, crashed, assertions, callers, Rest>>

WithExistingToken(t) ==
    /\ CanCall(t)
    /\ \E tok \in ExistingTokens : AuthToken' = tok
    /\ frame' = [frame EXCEPT ![t] = [Begin(t, "WithExistingToken") EXCEPT !.result = "ok"]]
    /\ sent' = [sent EXCEPT ![t] = <<>>]
    /\ UNCHANGED <<AuthConfig, Server, now, crashed, assertions, callers, lastWith, Rest>>

WithAdminAuth(t) ==
    \E args \in AdminArgs :
      LET username == args[1]
          password == args[2]
      IN Configured(t, "WithAdminAuth",
                   authConfig(AuthTypeBasic, Server, username, password, "", "nil"),
                   username, password, "", "")

WithClientKeyAndSecretAuth(t) ==
    \E args \in ClientKeyAndSecretArgs :
      LET authorizer == args[1]
          audience == args[2]
          clientKey == args[3]
          clientSecret == args[4]
      IN Configured(t, "WithClientKeyAndSecretAuth",
                   authConfig(AuthTypeClientKeyAndSecret, authorizer, clientKey, clientSecret, audience, "nil"),
                   authorizer, audience, clientKey, clientSecret)

WithPublicKeyAuth(t) ==
    \E args \in PublicKeyArgs :
      LET clientID == args[1]
          privateKey == args[2]
      IN Configured(t, "WithPublicKeyAuth",
                   authConfig(AuthTypePublicKey, Server, clientID, "", "datahub-client-sdk", privateKey),
                   clientID, privateKey, "", "")

WithUserAuthMerging(t) ==
    \E args \in UserArgs :
      LET authorizer == args[1]
          audience == args[2]
      IN Configured(t, "WithUserAuth",
                   [AuthConfig EXCEPT !.AuthType = AuthTypeUser, !.Authorizer = authorizer, !.Audience = audience],
                   authorizer, audience, "", "")

WithUserAuth(t) ==
    \E args \in UserArgs :
      LET authorizer == args[1]
          audience == args[2]
      IN Configured(t, "WithUserAuth",
                   authConfig(AuthTypeUser, authorizer, "", "", audience, "nil"),
                   authorizer, audience, "", "")

\* ------------------------------------------------------------- the clock
Tick ==
    /\ ~crashed
    /\ now + TickStep <= MaxTime
    /\ now' = now + TickStep
    /\ UNCHANGED <<AuthConfig, AuthToken, Server, crashed, assertions, callers, frame, sent, lastWith, Rest>>

\* ----------------------------------------------- returns up the call chain
Done(f, res, cse) == [f EXCEPT !.pc = "idle", !.result = res, !.cause = cse]

AfterCheckTokenIgnoringErr(f, err, cse) == [f EXCEPT !.pc = "request"]

\* an operation's handling of what checkToken returned
\* (if err != nil { return &AuthenticationError{...} }; client := c.makeHttpClient())
\* inside a stream the gate belongs to the operation the stream calls (f.callee),
\* which returns to the stream; GetEntitiesStream and GetChangesStream pass a gate of
\* their own before they call GetEntities / GetChanges, which pass theirs
AfterCheckToken(f, err, cse) ==
    IF err THEN IF f.callee = "none" THEN Done(f, "AuthenticationError", cse)
                                     ELSE [f EXCEPT !.pc = "return", !.cause = cse]
    ELSE IF f.op \in {"GetEntitiesStream", "GetChangesStream"} /\ f.callee = "none"
           THEN [f EXCEPT !.pc = "inner"]
           ELSE [f EXCEPT !.pc = "request"]

\* checkToken returns err (or nil) to whoever called it
checkTokenReturn(f, err, cse) ==
    LET g == [f EXCEPT !.gate = IF err THEN "err" ELSE "nil"]
    IN  IF g.op \in GatedOps
            THEN AfterCheckToken(g, err, cse)
            ELSE Done(g, IF err THEN "AuthenticationError" ELSE "ok", cse)

\* Authenticate returns nil or an AuthenticationError wrapping cse
AuthenticateReturn(f, err, cse) ==
    IF f.op = "Authenticate"
        THEN Done(f, IF err THEN "AuthenticationError" ELSE "ok", cse)
        ELSE checkTokenReturn(f, err, cse)

\* a panic unwinds the whole process
Panic(t, f, cse) ==
    /\ crashed' = TRUE
    /\ UNCHANGED assertions
    /\ frame' = [frame EXCEPT ![t] = [f EXCEPT !.pc = "crashed", !.result = "panic", !.cause = cse]]

\* ------------------------------------------------------ the strategies
authenticateWithBasicAuth(t, f, log) ==
    /\ sent' = [sent EXCEPT ![t] = Append(log, Req("token", AuthConfig.Authorizer, "/security/token", ""))]
    /\ frame' = [frame EXCEPT ![t] = [f EXCEPT !.pc = "token", !.attempts = @ + 1]]
    /\ UNCHANGED <<AuthToken, crashed, assertions>>

authenticateWithUserFlowKeepingToken(t, f, log) ==
    /\ frame' = [frame EXCEPT ![t] = AuthenticateReturn([f EXCEPT !.attempts = @ + 1], FALSE, "")]
    /\ sent' = [sent EXCEPT ![t] = log]
    /\ UNCHANGED <<AuthToken, crashed, assertions>>

authenticateWithUserFlow(t, f, log) ==
    /\ AuthToken' = NilToken
    /\ frame' = [frame EXCEPT ![t] = AuthenticateReturn([f EXCEPT !.attempts = @ + 1], FALSE, "")]
    /\ sent' = [sent EXCEPT ![t] = log]
    /\ UNCHANGED <<crashed, assertions>>

\* the first missing value authenticateWithClientCredentials reports, "" when none
MissingClientCredentials(cfg) ==
    IF cfg.ClientID = "" THEN "missing client id"
    ELSE IF cfg.ClientSecret = "" THEN "missing client secret"
    ELSE IF cfg.Authorizer = "" THEN "missing authorizer url"
    ELSE IF cfg.Audience = "" THEN "missing audience identifer"
    ELSE ""

authenticateWithClientCredentials(t, f, log) ==
    LET g == [f EXCEPT !.attempts = @ + 1]
        missing == MissingClientCredentials(AuthConfig)
    IN  IF missing # ""
            THEN /\ frame' = [frame EXCEPT ![t] = AuthenticateReturn([g EXCEPT !.outcome = "fail"], TRUE, missing)]
                 /\ sent' = [sent EXCEPT ![t] = log]
             /\ UNCHANGED <<AuthToken, crashed, assertions>>
            ELSE /\ sent' = [sent EXCEPT ![t] = Append(log, Req("discovery", AuthConfig.Authorizer, "/.well-known/openid-configuration", ""))]
                 /\ frame' = [frame EXCEPT ![t] = [g EXCEPT !.pc = "discovery"]]
                 /\ UNCHANGED <<AuthToken, crashed, assertions>>

\* uuid.New: a random (version 4) UUID, one that no earlier call has returned;
\* createJWTForTokenRequest is the only caller
Uuid(k) == "uuid-" \o ToString(k)
uuidNew == Uuid(Len(assertions) + 1)

createJWTForTokenRequestTimestampId(subject, audience, privateKey, time, uniqueId) ==
    Assertion(subject, audience, time + AssertionLifetime, Uuid(time), privateKey)

\* createJWTForTokenRequest: the registered claims, built at instant time with
\* uniqueId = uuid.New(), signed with the private key
createJWTForTokenRequest(subject, audience, privateKey, time, uniqueId) ==
    Assertion(subject, audience, time + AssertionLifetime, uniqueId, privateKey)

\* createJWTForTokenRequest signs with the private key: a nil key panics in
\* rsa.SignPKCS1v15; its error result is never looked at.  The assertion travels as
\* client_assertion of the token request
authenticateWithCertificate(t, f, log) ==
    LET g == [f EXCEPT !.attempts = @ + 1]
        pem == createJWTForTokenRequest(AuthConfig.ClientID, AuthConfig.Audience, AuthConfig.PrivateKey, now, uuidNew)
    IN  IF AuthConfig.PrivateKey = "nil"
            THEN /\ Panic(t, [g EXCEPT !.outcome = "fail"], "nil private key")
                 /\ sent' = [sent EXCEPT ![t] = log]
                 /\ UNCHANGED AuthToken
            ELSE /\ Len(assertions) < MaxAssertions
                 /\ assertions' = Append(assertions, pem.jti)
                 /\ sent' = [sent EXCEPT ![t] = Append(log, [Req("token", AuthConfig.Authorizer, "/security/token", "")
                                                                EXCEPT !.assertion = pem])]
                 /\ frame' = [frame EXCEPT ![t] = [g EXCEPT !.pc = "certificate"]]
                 /\ UNCHANGED <<AuthToken, crashed>>

\* ------------------------------------------------ checkToken, Authenticate
Authenticate(t, f, log) ==
    IF isTokenValid(AuthToken, now)
        THEN /\ frame' = [frame EXCEPT ![t] = AuthenticateReturn(f, FALSE, "")]
             /\ sent' = [sent EXCEPT ![t] = log]
             /\ UNCHANGED <<AuthToken, crashed, assertions>>
    ELSE IF AuthConfig.AuthType = AuthTypeClientKeyAndSecret
        THEN authenticateWithClientCredentials(t, f, log)
    ELSE IF AuthConfig.AuthType = AuthTypePublicKey
        THEN authenticateWithCertificate(t, f, log)
    ELSE IF AuthConfig.AuthType = AuthTypeUser
        THEN authenticateWithUserFlow(t, f, log)
    ELSE IF AuthConfig.AuthType = AuthTypeBasic
        THEN authenticateWithBasicAuth(t, f, log)
    ELSE /\ frame' = [frame EXCEPT ![t] = AuthenticateReturn(f, FALSE, "")]
         /\ sent' = [sent EXCEPT ![t] = log]
         /\ UNCHANGED <<AuthToken, crashed, assertions>>

checkTokenAfterFailure(t, f) ==
    /\ IF AuthToken.isNil \/ ~Valid(AuthToken, now) \/ f.failedWith # "none"
           THEN frame' = [frame EXCEPT ![t] = [f EXCEPT !.pc = "authenticate", !.gateValid = "no"]]
           ELSE frame' = [frame EXCEPT ![t] = checkTokenReturn([f EXCEPT !.gateValid = "yes"], FALSE, "")]
    /\ UNCHANGED <<AuthToken, crashed, assertions>>

checkToken(t, f) ==
    /\ IF AuthToken.isNil \/ ~Valid(AuthToken, now)
           THEN frame' = [frame EXCEPT ![t] = [f EXCEPT !.pc = "authenticate", !.gateValid = "no"]]
           ELSE frame' = [frame EXCEPT ![t] = checkTokenReturn([f EXCEPT !.gateValid = "yes"], FALSE, "")]
    /\ UNCHANGED <<AuthToken, crashed, assertions>>

Frame == <<AuthConfig, Server, now, callers, lastWith, Rest>>

\* a caller calls checkToken on its own (the refresh gate)
CallCheckToken(t) ==
    /\ CanCall(t)
    /\ sent' = [sent EXCEPT ![t] = <<>>]
    /\ checkToken(t, Begin(t, "checkToken"))
    /\ UNCHANGED Frame

\* a caller calls the public Authenticate
CallAuthenticate(t) ==
    /\ CanCall(t)
    /\ Authenticate(t, Begin(t, "Authenticate"), <<>>)
    /\ UNCHANGED Frame

\* checkToken found no valid token and calls Authenticate
AuthenticateStep(t) ==
    /\ ~crashed
    /\ t \in callers
    /\ frame[t].pc = "authenticate"
    /\ Authenticate(t, frame[t], sent[t])
    /\ UNCHANGED Frame

\* --------------------------------------------- the network answers
\* the token endpoint issues an access token other than the one the client holds
Fresh == IF AuthToken.AccessToken = "a" THEN "b" ELSE "a"

Stepping(t, at) ==
    /\ ~crashed
    /\ t \in callers
    /\ frame[t].pc = at

DiscoveryResponseFallingBack(t) ==
    /\ Stepping(t, "discovery")
    /\ \/ /\ sent' = [sent EXCEPT ![t] = Append(@, Req("token", AuthConfig.Authorizer, "/token", ""))]
          /\ frame' = [frame EXCEPT ![t] = [@ EXCEPT !.disc = "fail", !.pc = "token"]]
       \/ \E ep \in Endpoints :
            /\ sent' = [sent EXCEPT ![t] = Append(@, Req("token", ep, "", ""))]
            /\ frame' = [frame EXCEPT ![t] = [@ EXCEPT !.disc = ep, !.pc = "token"]]
    /\ UNCHANGED <<AuthToken, crashed, assertions>>
    /\ UNCHANGED Frame

\* oidc.NewProvider returns: the provider metadata with its token endpoint, or an error;
\* on success clientcredentials.Config.Token posts to provider.Endpoint().TokenURL
DiscoveryResponse(t) ==
    /\ Stepping(t, "discovery")
    /\ \/ /\ frame' = [frame EXCEPT ![t] =
                 AuthenticateReturn([@ EXCEPT !.disc = "fail", !.outcome = "fail"], TRUE, "discovery failed")]
          /\ UNCHANGED sent
       \/ \E ep \in Endpoints :
            /\ sent' = [sent EXCEPT ![t] = Append(@, Req("token", ep, "", ""))]
            /\ frame' = [frame EXCEPT ![t] = [@ EXCEPT !.disc = ep, !.pc = "token"]]
    /\ UNCHANGED <<AuthToken, crashed, assertions>>
    /\ UNCHANGED Frame

TokenResponseKeepingFirst(t) ==
    /\ Stepping(t, "token")
    /\ \/ /\ frame' = [frame EXCEPT ![t] =
                 AuthenticateReturn([@ EXCEPT !.outcome = "fail"], TRUE, "token request failed")]
          /\ UNCHANGED AuthToken
       \/ \E e \in ExpiresIn :
            LET token == Token(Fresh, IF e = 0 THEN NoExpiry ELSE now + e)
            IN  /\ AuthToken' = IF isTokenValid(AuthToken, now) THEN AuthToken ELSE token
                /\ frame' = [frame EXCEPT ![t] =
                       AuthenticateReturn([@ EXCEPT !.outcome = "ok", !.obtained = token, !.expiresIn = e], FALSE, "")]
    /\ UNCHANGED <<sent, crashed, assertions>>
    /\ UNCHANGED Frame

\* clientcredentials.Config.Token returns: a token or an error; Authenticate stores the token
TokenResponse(t) ==
    /\ Stepping(t, "token")
    /\ \/ /\ frame' = [frame EXCEPT ![t] =
                 AuthenticateReturn([@ EXCEPT !.outcome = "fail"], TRUE, "token request failed")]
          /\ UNCHANGED AuthToken
       \/ \E e \in ExpiresIn :
            LET token == Token(Fresh, IF e = 0 THEN NoExpiry ELSE now + e)
            IN  /\ AuthToken' = token
                /\ frame' = [frame EXCEPT ![t] =
                       AuthenticateReturn([@ EXCEPT !.outcome = "ok", !.obtained = token, !.expiresIn = e], FALSE, "")]
    /\ UNCHANGED <<sent, crashed, assertions>>
    /\ UNCHANGED Frame

\* an HTTP exchange hands its caller a response body unless the transport failed
BodiesAcquired(outcome) == IF outcome = "transport error" THEN 0 ELSE 1

\* bodies the token endpoint can answer http.PostForm with, whatever the status
CertificateBodies == {"transport error", "not json", "no access_token", "access_token not a string", "access_token"}

\* authenticateWithCertificate reads the answer: PostForm's and Decode's errors are
\* returned, response["access_token"].(string) panics unless the value is a string
\* res.Body is never closed
CertificateResponse(t) ==
    /\ Stepping(t, "certificate")
    /\ \E body \in CertificateBodies :
         LET f == [frame[t] EXCEPT !.bodies = @ + BodiesAcquired(body)]
         IN  IF body \in {"transport error", "not json"}
                THEN /\ frame' = [frame EXCEPT ![t] =
                            AuthenticateReturn([f EXCEPT !.outcome = "fail"], TRUE, body)]
                     /\ UNCHANGED <<AuthToken, crashed, assertions>>
             ELSE IF body \in {"no access_token", "access_token not a string"}
                THEN /\ Panic(t, [f EXCEPT !.outcome = "fail"], body)
                     /\ UNCHANGED AuthToken
             ELSE \E acc \in {Fresh, ""} :
                    LET token == Token(acc, NoExpiry)
                    IN  /\ AuthToken' = token
                        /\ frame' = [frame EXCEPT ![t] =
                               AuthenticateReturn([f EXCEPT !.outcome = "ok", !.obtained = token], FALSE, "")]
                        /\ UNCHANGED <<crashed, assertions>>
    /\ UNCHANGED sent
    /\ UNCHANGED Frame

\* ------------------------------------------------- domain operations
Path(o) == IF o = "GetEntities" THEN "/datasets/d/entities"
           ELSE IF o = "RunQuery" THEN "/query"
           ELSE "/transactions"

\* the Authorization the caller's last request carried, when that request failed and
\* its failure is what the caller's last operation returned
FailedBearer(t) ==
    IF frame[t].op \in DomainOps /\ frame[t].result = "RequestError" /\ sent[t] # <<>>
        THEN sent[t][Len(sent[t])].bearer
        ELSE "none"

\* GetEntities, RunQuery, ProcessTransaction: the parameter checks the operation has,
\* then the token gate
DomainCall(t) ==
    /\ CanCall(t)
    /\ sent' = [sent EXCEPT ![t] = <<>>]
    /\ \E o \in DomainOps, ok \in BOOLEAN :
         IF o \in {"RunQuery", "ProcessTransaction"} /\ ~ok
            THEN /\ frame' = [frame EXCEPT ![t] = Done(Begin(t, o), "ParameterError", "")]
                 /\ UNCHANGED <<AuthToken, crashed, assertions>>
            ELSE checkToken(t, [Begin(t, o) EXCEPT !.arg = "d", !.failedWith = FailedBearer(t)])
    /\ UNCHANGED Frame

\* makeHttpClient takes the access token of the token held now ("" when nil);
\* makeStreamingRequest sets Authorization: Bearer only for a non-empty access token
makeHttpClient == IF ~AuthToken.isNil THEN AuthToken.AccessToken ELSE ""

\* the path an operation requests, built from its argument
PathOf(o, arg) ==
    IF o = "GetDataset" THEN "/datasets/" \o arg
    ELSE IF o = "GetChanges" THEN "/datasets/" \o arg \o "/changes"
    ELSE IF o = "GetEntities" THEN "/datasets/" \o arg \o "/entities"
    ELSE IF o = "PauseJob" THEN "/job/" \o arg \o "/pause"
    ELSE IF o = "ResumeJob" THEN "/job/" \o arg \o "/resume"
    ELSE IF o = "RunJobAsIncremental" THEN "/job/" \o arg \o "/run?type=incremental"
    ELSE IF o = "RunJobAsFullSync" THEN "/job/" \o arg \o "/run?type=fullsync"
    ELSE IF o = "KillJob" THEN "/job/" \o arg \o "/resume"
    ELSE IF o = "RunJavascriptQuery" THEN "/query"
    ELSE Path(o)

SendRequest(t) ==
    /\ Stepping(t, "request")
    /\ frame[t].callee = "none"
    /\ sent' = [sent EXCEPT ![t] = Append(@, Req("domain", Server, PathOf(frame[t].op, frame[t].arg), makeHttpClient))]
    /\ frame' = [frame EXCEPT ![t] = [@ EXCEPT !.pc = "response"]]
    /\ UNCHANGED <<AuthToken, crashed, assertions>>
    /\ UNCHANGED Frame

\* what a domain request can end in
DomainOutcomes == {"ok", "transport error", "error status", "read error"}

\* makeStreamingRequest closes no body; makeRequest (and the operations that call
\* makeStreamingRequest themselves) close the body makeStreamingRequest returned
BodiesClosed(outcome) == IF outcome \in {"ok", "read error"} THEN 1 ELSE 0

DomainResponseRetrying(t) ==
    /\ Stepping(t, "response")
    /\ frame[t].callee = "none"
    /\ frame[t].op # "RunJavascriptQuery"
    /\ \E ok \in BOOLEAN :
         frame' = [frame EXCEPT ![t] = IF ~ok /\ Len(sent[t]) < 3
                                          THEN [@ EXCEPT !.pc = "request"]
                                          ELSE Done(@, IF ok THEN "ok" ELSE "RequestError", "")]
    /\ UNCHANGED <<AuthToken, crashed, assertions, sent>>
    /\ UNCHANGED Frame

\* makeRequest: makeStreamingRequest returns the body for status 200 and 201 and
\* an error otherwise, for a transport failure and for any other status alike; the
\* body it returned is read, and closed whether or not reading failed
DomainResponse(t) ==
    /\ Stepping(t, "response")
    /\ frame[t].callee = "none"
    /\ frame[t].op # "RunJavascriptQuery"
    /\ \E outcome \in DomainOutcomes :
         frame' = [frame EXCEPT ![t] =
                      Done([@ EXCEPT !.bodies = @ + BodiesAcquired(outcome) - BodiesClosed(outcome)],
                           IF outcome = "ok" THEN "ok" ELSE "RequestError", "")]
    /\ UNCHANGED <<AuthToken, crashed, assertions, sent>>
    /\ UNCHANGED Frame

\* ------------------------------------------------ dataset reads and jobs
DatasetNames == {"", "d"}
JobIds == {"", "j"}

\* the caller reads datasets and runs jobs before it starts to iterate
NotIterating == es.kind = "none" /\ qri.state = "none"

\* GetDataset, GetChanges: the dataset name is checked, then the token gate;
\* GetEntities: the token gate and nothing else
DatasetRead(t) ==
    /\ CanCall(t)
    /\ NotIterating
    /\ sent' = [sent EXCEPT ![t] = <<>>]
    /\ \E o \in DatasetReads, dataset \in DatasetNames :
         LET f == [Begin(t, o) EXCEPT !.arg = dataset]
         IN  IF o \in {"GetDataset", "GetChanges"} /\ dataset = ""
                THEN /\ frame' = [frame EXCEPT ![t] = Done(f, "ParameterError", "dataset name is required")]
                     /\ UNCHANGED <<AuthToken, crashed, assertions>>
                ELSE checkToken(t, f)
    /\ UNCHANGED Frame

\* PauseJob, ResumeJob, RunJobAsIncremental, RunJobAsFullSync, KillJob: the id is
\* checked, then the token gate
JobCall(t) ==
    /\ CanCall(t)
    /\ NotIterating
    /\ sent' = [sent EXCEPT ![t] = <<>>]
    /\ \E o \in JobOps, id \in JobIds :
         LET f == [Begin(t, o) EXCEPT !.arg = id]
         IN  IF id = ""
                THEN /\ frame' = [frame EXCEPT ![t] = Done(f, "ParameterError", "id cannot be empty")]
                     /\ UNCHANGED <<AuthToken, crashed, assertions>>
                ELSE checkToken(t, f)
    /\ UNCHANGED Frame

\* ------------------------------------------------------------- streams
StreamKind(o) == IF o = "GetEntitiesStream" THEN "entities"
                 ELSE IF o = "GetChangesStream" THEN "changes"
                 ELSE "query"

\* the operation a stream calls for a page
PageOp(kind) == IF kind = "entities" THEN "GetEntities"
                ELSE IF kind = "changes" THEN "GetChanges"
                ELSE "RunQuery"

\* GetEntitiesStream, GetChangesStream: the token gate, then newEntitiesStream /
\* newChangesStream; RunStreamingQuery: its parameter checks, then
\* newQueryResultEntitiesStream, which calls RunQuery
OpenStream(t) ==
    /\ CanCall(t)
    /\ es.kind = "none"
    /\ qri.state = "none"
    /\ sent' = [sent EXCEPT ![t] = <<>>]
    /\ \E o \in StreamOpeners, dataset \in DatasetNames, take \in 1..MaxTake :
         LET f == [Begin(t, o) EXCEPT !.arg = dataset, !.take = take, !.cursor = ""]
         IN  IF o = "RunStreamingQuery"
                THEN IF dataset = ""
                        THEN /\ frame' = [frame EXCEPT ![t] = Done(f, "ParameterError", "query must have a predicate")]
                             /\ UNCHANGED <<AuthToken, crashed, assertions>>
                        ELSE checkToken(t, [f EXCEPT !.callee = "RunQuery"])
                ELSE checkToken(t, f)
    /\ UNCHANGED Frame

\* newEntitiesStream calls GetEntities, newChangesStream calls GetChanges, for the
\* initial collection
InnerCall(t) ==
    /\ Stepping(t, "inner")
    /\ LET f == frame[t]
       IN  IF f.op = "GetChangesStream" /\ f.arg = ""
              THEN /\ frame' = [frame EXCEPT ![t] = Done(f, "ParameterError", "dataset name is required")]
                   /\ UNCHANGED <<AuthToken, crashed, assertions>>
              ELSE checkToken(t, [f EXCEPT !.callee = PageOp(StreamKind(f.op))])
    /\ UNCHANGED sent
    /\ UNCHANGED Frame

StreamNextFromStart(t) ==
    /\ CanCall(t)
    /\ es.kind # "none"
    /\ Len(returned) < MaxNext
    /\ sent' = [sent EXCEPT ![t] = <<>>]
    /\ LET f == Begin(t, "Next")
           c == es.currentCollection
       IN  IF c.isNil
              THEN /\ Panic(t, f, "nil currentCollection")
                   /\ returned' = Append(returned, "panic")
                   /\ UNCHANGED <<AuthToken, es>>
           ELSE IF es.currentPos = Len(c.Entities)
              THEN IF c.Continuation.isNil
                      THEN IF es.kind = "query"
                              THEN /\ frame' = [frame EXCEPT ![t] = Done(f, "ok", "")]
                                   /\ returned' = Append(returned, "none")
                                   /\ UNCHANGED <<AuthToken, crashed, assertions, es>>
                              ELSE /\ Panic(t, f, "nil Continuation")
                                   /\ returned' = Append(returned, "panic")
                                   /\ UNCHANGED <<AuthToken, es>>
                      ELSE /\ checkToken(t, [f EXCEPT !.callee = PageOp(es.kind), !.arg = es.dataset,
                                                      !.cursor = es.startFrom, !.take = es.take])
                           /\ UNCHANGED <<es, returned>>
           ELSE /\ frame' = [frame EXCEPT ![t] = Done(f, "ok", "")]
                /\ returned' = Append(returned, c.Entities[es.currentPos + 1])
                /\ es' = [es EXCEPT !.currentPos = @ + 1]
                /\ UNCHANGED <<AuthToken, crashed, assertions>>
    /\ UNCHANGED <<AuthConfig, Server, now, callers, lastWith, qri, records, pages, disk, keys>>

\* EntitiesStream.Next, QueryResultEntitiesStream.Next up to the page fetch
StreamNext(t) ==
    /\ CanCall(t)
    /\ es.kind # "none"
    /\ Len(returned) < MaxNext
    /\ sent' = [sent EXCEPT ![t] = <<>>]
    /\ LET f == Begin(t, "Next")
           c == es.currentCollection
       IN  IF c.isNil
              THEN /\ Panic(t, f, "nil currentCollection")
                   /\ returned' = Append(returned, "panic")
                   /\ UNCHANGED <<AuthToken, es>>
           ELSE IF es.currentPos = Len(c.Entities)
              THEN IF c.Continuation.isNil
                      THEN IF es.kind = "query"
                              THEN /\ frame' = [frame EXCEPT ![t] = Done(f, "ok", "")]
                                   /\ returned' = Append(returned, "none")
                                   /\ UNCHANGED <<AuthToken, crashed, assertions, es>>
                              ELSE /\ Panic(t, f, "nil Continuation")
                                   /\ returned' = Append(returned, "panic")
                                   /\ UNCHANGED <<AuthToken, es>>
                      ELSE /\ checkToken(t, [f EXCEPT !.callee = PageOp(es.kind), !.arg = es.dataset,
                                                      !.cursor = c.Continuation.Token, !.take = es.take])
                           /\ UNCHANGED <<es, returned>>
           ELSE /\ frame' = [frame EXCEPT ![t] = Done(f, "ok", "")]
                /\ returned' = Append(returned, c.Entities[es.currentPos + 1])
                /\ es' = [es EXCEPT !.currentPos = @ + 1]
                /\ UNCHANGED <<AuthToken, crashed, assertions>>
    /\ UNCHANGED <<AuthConfig, Server, now, callers, lastWith, qri, records, pages, disk, keys>>

StreamTokenOfRequest == IF es.currentCollection.isNil THEN NilContinuation
                        ELSE Continuation(es.startFrom)

\* EntitiesStream.Token, QueryResultEntitiesStream.Token
StreamToken == IF es.currentCollection.isNil THEN NilContinuation
               ELSE es.currentCollection.Continuation

\* the operation that opens a stream of a kind
Opener(kind) == IF kind = "entities" THEN "GetEntitiesStream"
                ELSE IF kind = "changes" THEN "GetChangesStream"
                ELSE "RunStreamingQuery"

\* the caller takes Token() of the iterator it holds and starts a fresh iterator
\* over the same dataset or query with it as the starting cursor (from / since /
\* continuations) and the same page size
Resume(t) ==
    /\ CanCall(t)
    /\ es.kind # "none"
    /\ es.before = -1
    /\ ~StreamToken.isNil
    /\ sent' = [sent EXCEPT ![t] = <<>>]
    /\ es' = [es EXCEPT !.before = Len(returned),
                        !.left = Len(es.currentCollection.Entities) - es.currentPos]
    /\ LET f == [Begin(t, Opener(es.kind)) EXCEPT !.arg = es.dataset, !.take = es.take,
                                                    !.cursor = StreamToken.Token]
       IN  IF es.kind = "query"
              THEN checkToken(t, [f EXCEPT !.callee = "RunQuery"])
              ELSE checkToken(t, f)
    /\ UNCHANGED <<AuthConfig, Server, now, callers, lastWith, qri, records, pages, returned, disk, keys>>

\* the page operation sends its request: the cursor travels as from / since /
\* continuations, the page size as limit
SendPageRequest(t) ==
    /\ Stepping(t, "request")
    /\ frame[t].callee # "none"
    /\ sent' = [sent EXCEPT ![t] = Append(@, Req("domain", Server, PathOf(frame[t].callee, frame[t].arg), makeHttpClient))]
    /\ pages' = Append(pages, [op |-> frame[t].op, cursor |-> frame[t].cursor, take |-> frame[t].take,
                               answered |-> FALSE, cont |-> NilContinuation])
    /\ frame' = [frame EXCEPT ![t] = [@ EXCEPT !.pc = "response"]]
    /\ UNCHANGED <<AuthConfig, AuthToken, Server, now, crashed, assertions, callers, lastWith, es, qri, records, returned, disk, keys>>

\* the position a cursor stands for on the server ("" is the start)
Position(cursor) == IF cursor = "" THEN 0
                    ELSE CHOOSE p \in 0..Len(records) : Cursor(p) = cursor

Min(a, b) == IF a < b THEN a ELSE b

\* the records of the page that starts at cursor, and where the page ends
PageEnd(cursor, take) == Min(Position(cursor) + take, Len(records))
PageEntities(cursor, take) == SubSeq(records, Position(cursor) + 1, PageEnd(cursor, take))

\* the continuation the server sends with a page: always for a dataset; a query
\* result may come without one once nothing is left
PageContinuations(callee, cursor, take) ==
    {Continuation(Cursor(PageEnd(cursor, take)))}
        \cup IF callee = "RunQuery" /\ PageEnd(cursor, take) = Len(records)
                THEN {NilContinuation} ELSE {}


FetchedRestarting(t, f, err, coll) ==
    IF f.op = "Next"
       THEN /\ es' = IF err = ""
                        THEN [es EXCEPT !.currentCollection = coll,
                                        !.currentPos = 0]
                     ELSE IF es.kind # "query" \/ err = "Error"
                        THEN [es EXCEPT !.currentCollection = NilCollection]
                     ELSE es
            /\ returned' = Append(returned, IF err # "" THEN "error"
                                            ELSE IF coll.Entities = <<>> THEN "none"
                                            ELSE coll.Entities[1])
            /\ frame' = [frame EXCEPT ![t] = Done(f, IF err = "" THEN "ok" ELSE err, f.cause)]
       ELSE /\ es' = IF err = ""
                        THEN [kind |-> StreamKind(f.op), currentCollection |-> coll, currentPos |-> 0,
                              dataset |-> f.arg, take |-> f.take, startFrom |-> f.cursor,
                              before |-> es.before, left |-> es.left]
                        ELSE [es EXCEPT !.before = -1, !.left = 0]
            /\ returned' = returned
            /\ frame' = [frame EXCEPT ![t] = Done(f, IF err = "" THEN "ok" ELSE err, f.cause)]

\* the stream code takes what the page operation returned: a collection (err = "")
\* or an error.  EntitiesStream.Next assigns the result to currentCollection before it
\* looks at err, so an error leaves nil there; QueryResultEntitiesStream.Next does so
\* only for the error of makeEntityCollectionFromQueryResult ("Error")
Fetched(t, f, err, coll) ==
    IF f.op = "Next"
       THEN /\ es' = IF err = ""
                        THEN [es EXCEPT !.currentCollection = coll,
                                        !.currentPos = IF coll.Entities = <<>> THEN 0 ELSE 1]
                     ELSE IF es.kind # "query" \/ err = "Error"
                        THEN [es EXCEPT !.currentCollection = NilCollection]
                     ELSE es
            /\ returned' = Append(returned, IF err # "" THEN "error"
                                            ELSE IF coll.Entities = <<>> THEN "none"
                                            ELSE coll.Entities[1])
            /\ frame' = [frame EXCEPT ![t] = Done(f, IF err = "" THEN "ok" ELSE err, f.cause)]
       ELSE /\ es' = IF err = ""
                        THEN [kind |-> StreamKind(f.op), currentCollection |-> coll, currentPos |-> 0,
                              dataset |-> f.arg, take |-> f.take, startFrom |-> f.cursor,
                              before |-> es.before, left |-> es.left]
                        ELSE [es EXCEPT !.before = -1, !.left = 0]
            /\ returned' = returned
            /\ frame' = [frame EXCEPT ![t] = Done(f, IF err = "" THEN "ok" ELSE err, f.cause)]

\* what a page request can end in
PageOutcomes(callee) ==
    {"", "RequestError", "ClientProcessingError"} \cup IF callee = "RunQuery" THEN {"Error"} ELSE {}

\* the server answers a page request, or the request fails; the requests of a
\* stream that did not come into being are forgotten
PageResponse(t) ==
    /\ Stepping(t, "response")
    /\ frame[t].callee # "none"
    /\ \E err \in PageOutcomes(frame[t].callee) :
         IF err = ""
            THEN \E cont \in PageContinuations(frame[t].callee, frame[t].cursor, frame[t].take) :
                   /\ pages' = [pages EXCEPT ![Len(pages)] = [@ EXCEPT !.answered = TRUE, !.cont = cont]]
                   /\ Fetched(t, frame[t], "",
                              EntityCollection(PageEntities(frame[t].cursor, frame[t].take), cont))
            ELSE /\ pages' = IF frame[t].op = "Next" THEN pages ELSE <<>>
                 /\ Fetched(t, frame[t], err, NilCollection)
    /\ UNCHANGED <<AuthConfig, AuthToken, Server, now, crashed, assertions, callers, lastWith, sent, qri, records, disk, keys>>

\* the page operation failed at its token gate and returns the AuthenticationError
GateFailed(t) ==
    /\ Stepping(t, "return")
    /\ Fetched(t, frame[t], "AuthenticationError", NilCollection)
    /\ UNCHANGED <<AuthConfig, AuthToken, Server, now, crashed, assertions, callers, lastWith, sent, qri, records, pages, disk, keys>>

\* ------------------------------------------- javascript query iterator
\* RunJavascriptQuery: the query is checked, then the token gate
RunJavascriptQuery(t) ==
    /\ CanCall(t)
    /\ es.kind = "none"
    /\ qri.state = "none"
    /\ sent' = [sent EXCEPT ![t] = <<>>]
    /\ \E query \in {"", "q"} :
         LET f == [Begin(t, "RunJavascriptQuery") EXCEPT !.arg = query]
         IN  IF query = ""
                THEN /\ frame' = [frame EXCEPT ![t] = Done(f, "ParameterError", "query cannot be empty")]
                     /\ UNCHANGED <<AuthToken, crashed, assertions>>
                ELSE checkToken(t, f)
    /\ UNCHANGED Frame

\* the JSON array of the result's objects, as the values the decoder meets
ResultArray == <<"[">> \o records \o <<"]">>

\* the bodies a javascript query can be answered with: the array of the result's
\* objects, a lone object, nothing
QueryBodies == {ResultArray, <<"{", "}">>, <<>>}

\* makeStreamingRequest returns the open body (or an error) and
\* newQueryResultIterator wraps it
JavascriptQueryResponse(t) ==
    /\ Stepping(t, "response")
    /\ frame[t].op = "RunJavascriptQuery"
    /\ \/ /\ frame' = [frame EXCEPT ![t] = Done(@, "RequestError", "")]
          /\ qri' = qri
       \/ \E body \in QueryBodies :
            /\ frame' = [frame EXCEPT ![t] = Done(@, "ok", "")]
            /\ qri' = [state |-> "open", dataStream |-> body, readStart |-> FALSE, body |-> body]
    /\ UNCHANGED <<AuthConfig, AuthToken, Server, now, crashed, assertions, callers, lastWith, sent, es, records, pages, returned, disk, keys>>

MoreIgnoringEnd(stream) == stream # <<>>

\* json.Decoder.More: another value follows before the end of the array or of the input
More(stream) == stream # <<>> /\ Head(stream) \notin {"]", "}"}

\* QueryResultIterator.Next
QriNext(t) ==
    /\ CanCall(t)
    /\ qri.state = "open"
    /\ Len(returned) < MaxNext
    /\ sent' = [sent EXCEPT ![t] = <<>>]
    /\ LET f == Begin(t, "QueryResultIterator.Next")
           s == qri.dataStream
       IN  IF ~qri.readStart /\ s = <<>>
              THEN /\ frame' = [frame EXCEPT ![t] = Done(f, "ClientProcessingError", "unable to decode start of data stream")]
                   /\ returned' = Append(returned, "error")
                   /\ qri' = qri
           ELSE IF ~qri.readStart /\ Head(s) # "["
              THEN /\ frame' = [frame EXCEPT ![t] = Done(f, "ClientProcessingError", "expected [ at start of data stream")]
                   /\ returned' = Append(returned, "error")
                   /\ qri' = [qri EXCEPT !.dataStream = Tail(s)]
           ELSE LET rest == IF qri.readStart THEN s ELSE Tail(s)
                IN  /\ frame' = [frame EXCEPT ![t] = Done(f, "ok", "")]
                    /\ IF More(rest)
                          THEN /\ returned' = Append(returned, Head(rest))
                               /\ qri' = [qri EXCEPT !.readStart = TRUE, !.dataStream = Tail(rest)]
                          ELSE /\ returned' = Append(returned, "none")
                               /\ qri' = [qri EXCEPT !.readStart = TRUE, !.dataStream = rest]
    /\ UNCHANGED <<AuthConfig, AuthToken, Server, now, crashed, assertions, callers, lastWith, es, records, pages, disk, keys>>

\* QueryResultIterator.Close
QriClose(t) ==
    /\ CanCall(t)
    /\ qri.state = "open"
    /\ qri' = [qri EXCEPT !.state = "closed"]
    /\ frame' = [frame EXCEPT ![t] = Done(Begin(t, "QueryResultIterator.Close"), "ok", "")]
    /\ sent' = [sent EXCEPT ![t] = <<>>]
    /\ UNCHANGED <<AuthConfig, AuthToken, Server, now, crashed, assertions, callers, lastWith, es, records, pages, returned, disk, keys>>

\* ------------------------------------------------------------ key files
Locations == {"", "dir"}
KeyFiles == {"node_key", "node_key_pub"}

\* Client.GenerateKeypair
GenerateKeypair(t) ==
    /\ CanCall(t)
    /\ \E k \in GeneratedKeys : keys' = [keys EXCEPT !.generated = k]
    /\ frame' = [frame EXCEPT ![t] = Done(Begin(t, "GenerateKeypair"), "ok", "")]
    /\ sent' = [sent EXCEPT ![t] = <<>>]
    /\ UNCHANGED <<AuthConfig, AuthToken, Server, now, crashed, assertions, callers, lastWith,
                   es, qri, records, pages, returned, disk>>

\* os.WriteFile(name, data, 0600) on directory state d: the file is opened for
\* writing, created with mode 0600 or truncated, then written; io = FALSE is a write
\* that fails after the open
WriteFile(d, name, data, io) ==
    IF d.dir = "missing"
        THEN [disk |-> d, err |-> "no such file or directory"]
    ELSE IF ~d[name].exists /\ d.dir # "writable"
        THEN [disk |-> d, err |-> "permission denied"]
    ELSE IF d[name].exists /\ ~d[name].writable
        THEN [disk |-> d, err |-> "permission denied"]
    ELSE LET opened == IF d[name].exists THEN d[name] ELSE File(Garbage)
         IN  IF io THEN [disk |-> [d EXCEPT ![name] = [opened EXCEPT !.content = data]], err |-> ""]
                   ELSE [disk |-> [d EXCEPT ![name] = [opened EXCEPT !.content = Garbage]],
                         err |-> "input/output error"]

\* Client.SaveKeypair: both keys are exported, then node_key and node_key.pub are
\* written one after the other; every error is returned as it is
SaveKeypair(t) ==
    /\ CanCall(t)
    /\ keys.generated # NilKey
    /\ \E location \in Locations \ {""}, io1, io2 \in BOOLEAN :
         LET privateKeyPem == exportRsaPrivateKeyAsPem(keys.generated)
             publicKeyPem == exportRsaPublicKeyAsPem(PublicKey(keys.generated))
             first == WriteFile(disk, "node_key", privateKeyPem, io1)
             second == WriteFile(first.disk, "node_key_pub", publicKeyPem, io2)
             last == IF first.err # "" THEN first ELSE second
             f == [Begin(t, "SaveKeypair") EXCEPT !.arg = location]
         IN  /\ disk' = last.disk
             /\ keys' = [keys EXCEPT !.saved = keys.generated, !.intact = (last.err = ""),
                                      !.targetMissing = (disk.dir # "writable")]
             /\ frame' = [frame EXCEPT ![t] = Done(f, IF last.err = "" THEN "ok" ELSE "Error", last.err)]
    /\ sent' = [sent EXCEPT ![t] = <<>>]
    /\ UNCHANGED <<AuthConfig, AuthToken, Server, now, crashed, assertions, callers, lastWith,
                   es, qri, records, pages, returned>>

\* os.Stat on a file of the key directory
Stat(d, name) == d.dir # "missing" /\ d[name].exists

\* the location is empty, or a key file in it is missing or cannot be read
LoadTargetMissing(d, location) ==
    \/ location = ""
    \/ ~Stat(d, "node_key")
    \/ ~Stat(d, "node_key_pub")
    \/ ~d.node_key.readable
    \/ ~d.node_key_pub.readable

\* what LoadKeypair returns: the error kind ("" for none), its message, the keys
LoadResult(kind, msg, private, public) ==
    [kind |-> kind, msg |-> msg, private |-> private, public |-> public]

\* Client.LoadKeypair: ParameterError for an empty location and for a file os.Stat
\* does not find; the errors of reading and parsing are returned as they are
LoadKeypairFrom(d, location) ==
    LET private == parseRsaPrivateKeyFromPem(d.node_key.content)
        public == parseRsaPublicKeyFromPem(d.node_key_pub.content)
    IN  IF location = "" THEN LoadResult("ParameterError", "location is not valid", NilKey, NilKey)
        ELSE IF ~Stat(d, "node_key")
            THEN LoadResult("ParameterError", "node_key is not valid", NilKey, NilKey)
        ELSE IF ~d.node_key.readable
            THEN LoadResult("Error", "permission denied", NilKey, NilKey)
        ELSE IF private.err # ""
            THEN LoadResult("Error", private.err, NilKey, NilKey)
        ELSE IF ~Stat(d, "node_key_pub")
            THEN LoadResult("ParameterError", "node_key.pub is not valid", NilKey, NilKey)
        ELSE IF ~d.node_key_pub.readable
            THEN LoadResult("Error", "permission denied", NilKey, NilKey)
        ELSE IF public.err # ""
            THEN LoadResult("Error", public.err, NilKey, NilKey)
        ELSE LoadResult("", "", private.key, public.key)

LoadKeypair(t) ==
    /\ CanCall(t)
    /\ \E location \in Locations :
         LET r == LoadKeypairFrom(disk, location)
             f == [Begin(t, "LoadKeypair") EXCEPT !.arg = location]
         IN  /\ keys' = [keys EXCEPT !.private = r.private, !.public = r.public,
                                      !.targetMissing = LoadTargetMissing(disk, location)]
             /\ frame' = [frame EXCEPT ![t] = Done(f, IF r.kind = "" THEN "ok" ELSE r.kind, r.msg)]
    /\ sent' = [sent EXCEPT ![t] = <<>>]
    /\ UNCHANGED <<AuthConfig, AuthToken, Server, now, crashed, assertions, callers, lastWith,
                   es, qri, records, pages, returned, disk>>

\* somebody else changes the key directory: creates or removes it, changes its
\* permissions or a file's, removes a file or overwrites it
Tamper ==
    /\ ~crashed
    /\ \/ /\ disk.dir = "missing"
          /\ disk' = [disk EXCEPT !.dir = "writable"]
          /\ keys' = keys
       \/ /\ disk.dir # "missing"
          /\ \/ /\ disk' = [disk EXCEPT !.dir = IF @ = "writable" THEN "readonly" ELSE "writable"]
                /\ keys' = keys
             \/ /\ disk' = NoDisk
                /\ keys' = [keys EXCEPT !.intact = FALSE]
             \/ \E name \in KeyFiles :
                  /\ disk[name].exists
                  /\ \/ disk' = [disk EXCEPT ![name] = NoFile]
                     \/ disk' = [disk EXCEPT ![name] = [@ EXCEPT !.readable = ~@]]
                     \/ disk' = [disk EXCEPT ![name] = [@ EXCEPT !.writable = ~@]]
                     \/ disk' = [disk EXCEPT ![name] = [@ EXCEPT !.content = Garbage]]
                  /\ keys' = [keys EXCEPT !.intact = FALSE]
    /\ UNCHANGED <<AuthConfig, AuthToken, Server, now, crashed, assertions, callers, frame, sent, lastWith,
                   es, qri, records, pages, returned>>

\* ------------------------------------------------------ specification
Next ==
    \/ \E t \in Callers : WithExistingToken(t)
    \/ \E t \in Callers : WithAdminAuth(t)
    \/ \E t \in Callers : WithClientKeyAndSecretAuth(t)
    \/ \E t \in Callers : WithPublicKeyAuth(t)
    \/ \E t \in Callers : WithUserAuth(t)
    \/ \E t \in Callers : CallCheckToken(t)
    \/ \E t \in Callers : CallAuthenticate(t)
    \/ \E t \in Callers : AuthenticateStep(t)
    \/ \E t \in Callers : DiscoveryResponse(t)
    \/ \E t \in Callers : TokenResponse(t)
    \/ \E t \in Callers : CertificateResponse(t)
    \/ \E t \in Callers : DomainCall(t)
    \/ \E t \in Callers : SendRequest(t)
    \/ \E t \in Callers : DomainResponse(t)
    \/ Tick

Spec == Init /\ [][Next]_vars

\* two goroutines share one configured client whose token is not valid yet
WellConfigured ==
    {authConfig(AuthTypeBasic, "srv", "x", "x", "", "nil"),
     authConfig(AuthTypeClientKeyAndSecret, "x", "x", "x", "x", "nil"),
     authConfig(AuthTypePublicKey, "srv", "x", "", "datahub-client-sdk", "key")}

InitConc ==
    /\ Server = "srv"
    /\ AuthConfig \in WellConfigured
    /\ AuthToken = NilToken
    /\ now = 0
    /\ crashed = FALSE
    /\ assertions = <<>>
    /\ callers = {1, 2}
    /\ frame = [t \in Callers |-> IdleFrame]
    /\ sent = [t \in Callers |-> <<>>]
    /\ lastWith = [fn |-> "none", a |-> "", b |-> "", c |-> "", d |-> ""]
    /\ NoIterators
    /\ NoKeyMaterial

NextConc ==
    \/ \E t \in Callers : CallCheckToken(t)
    \/ \E t \in Callers : AuthenticateStep(t)
    \/ \E t \in Callers : DiscoveryResponse(t)
    \/ \E t \in Callers : TokenResponse(t)
    \/ \E t \in Callers : CertificateResponse(t)
    \/ Tick

SpecConc == InitConc /\ [][NextConc]_vars

\* one caller reads datasets, runs jobs and iterates over one stream, with a client
\* configured for the Basic strategy against a server holding up to MaxRecords records
InitOps ==
    /\ Server = "srv"
    /\ AuthConfig = authConfig(AuthTypeBasic, "srv", "x", "x", "", "nil")
    /\ AuthToken = NilToken
    /\ now = 0
    /\ crashed = FALSE
    /\ assertions = <<>>
    /\ callers = {1}
    /\ frame = [t \in Callers |-> IdleFrame]
    /\ sent = [t \in Callers |-> <<>>]
    /\ lastWith = [fn |-> "none", a |-> "", b |-> "", c |-> "", d |-> ""]
    /\ es = NoStream
    /\ qri = NoIterator
    /\ records \in {RecordsUpTo(n) : n \in 0..MaxRecords}
    /\ pages = <<>>
    /\ returned = <<>>
    /\ NoKeyMaterial

NextOps ==
    \/ \E t \in Callers : DatasetRead(t)
    \/ \E t \in Callers : JobCall(t)
    \/ \E t \in Callers : OpenStream(t)
    \/ \E t \in Callers : InnerCall(t)
    \/ \E t \in Callers : StreamNext(t)
    \/ \E t \in Callers : SendPageRequest(t)
    \/ \E t \in Callers : PageResponse(t)
    \/ \E t \in Callers : GateFailed(t)
    \/ \E t \in Callers : RunJavascriptQuery(t)
    \/ \E t \in Callers : JavascriptQueryResponse(t)
    \/ \E t \in Callers : QriNext(t)
    \/ \E t \in Callers : QriClose(t)
    \/ \E t \in Callers : AuthenticateStep(t)
    \/ \E t \in Callers : TokenResponse(t)
    \/ \E t \in Callers : SendRequest(t)
    \/ \E t \in Callers : DomainResponse(t)
    \/ Tick

SpecOps == InitOps /\ [][NextOps]_vars

\* one caller holding a token that does not expire iterates over a stream and
\* resumes it once in a fresh iterator
InitResume ==
    /\ Server = "srv"
    /\ AuthConfig = authConfig(AuthTypeNone, "", "", "", "", "nil")
    /\ AuthToken = Token("a", NoExpiry)
    /\ now = 0
    /\ crashed = FALSE
    /\ assertions = <<>>
    /\ callers = {1}
    /\ frame = [t \in Callers |-> IdleFrame]
    /\ sent = [t \in Callers |-> <<>>]
    /\ lastWith = [fn |-> "none", a |-> "", b |-> "", c |-> "", d |-> ""]
    /\ es = NoStream
    /\ qri = NoIterator
    /\ records \in {RecordsUpTo(n) : n \in 0..MaxRecords}
    /\ pages = <<>>
    /\ returned = <<>>
    /\ NoKeyMaterial

NextResume ==
    \/ \E t \in Callers : OpenStream(t)
    \/ \E t \in Callers : InnerCall(t)
    \/ \E t \in Callers : StreamNext(t)
    \/ \E t \in Callers : Resume(t)
    \/ \E t \in Callers : SendPageRequest(t)
    \/ \E t \in Callers : PageResponse(t)

SpecResume == InitResume /\ [][NextResume]_vars

\* one caller generates key pairs, saves them to and loads them from a key directory
\* that others can change
InitKeys ==
    /\ NewClient
    /\ now = 0
    /\ crashed = FALSE
    /\ assertions = <<>>
    /\ callers = {1}
    /\ frame = [t \in Callers |-> IdleFrame]
    /\ sent = [t \in Callers |-> <<>>]
    /\ lastWith = [fn |-> "none", a |-> "", b |-> "", c |-> "", d |-> ""]
    /\ NoIterators
    /\ disk \in {[NoDisk EXCEPT !.dir = d] : d \in {"missing", "readonly", "writable"}}
    /\ keys = NoKeys

NextKeys ==
    \/ \E t \in Callers : GenerateKeypair(t)
    \/ \E t \in Callers : SaveKeypair(t)
    \/ \E t \in Callers : LoadKeypair(t)
    \/ Tamper

SpecKeys == InitKeys /\ [][NextKeys]_vars

\* one caller uses a client configured for the PublicKeyJWT strategy with a key;
\* every token the client gets to hold comes from the certificate exchange
InitCert ==
    /\ Server = "srv"
    /\ AuthConfig = authConfig(AuthTypePublicKey, "srv", "x", "", "datahub-client-sdk", "key")
    /\ AuthToken = NilToken
    /\ now = 0
    /\ crashed = FALSE
    /\ assertions = <<>>
    /\ callers = {1}
    /\ frame = [t \in Callers |-> IdleFrame]
    /\ sent = [t \in Callers |-> <<>>]
    /\ lastWith = [fn |-> "none", a |-> "", b |-> "", c |-> "", d |-> ""]
    /\ NoIterators
    /\ NoKeyMaterial

NextCert ==
    \/ \E t \in Callers : CallCheckToken(t)
    \/ \E t \in Callers : CallAuthenticate(t)
    \/ \E t \in Callers : AuthenticateStep(t)
    \/ \E t \in Callers : CertificateResponse(t)
    \/ \E t \in Callers : DomainCall(t)
    \/ \E t \in Callers : SendRequest(t)
    \/ \E t \in Callers : DomainResponse(t)
    \/ Tick

SpecCert == InitCert /\ [][NextCert]_vars

\* ------------------------------------------------------------ properties
Returned(t) == frame[t].pc = "idle" /\ frame[t].result # "none"

HeldValid(t) == Valid(frame[t].startTok, frame[t].startNow)

NetworkStrategies == {AuthTypeBasic, AuthTypeClientKeyAndSecret, AuthTypePublicKey}

NoDomainRequest(t) == \A i \in 1..Len(sent[t]) : sent[t][i].kind # "domain"

\* C1: a caller that enters checkToken or Authenticate while the client holds a valid
\* token gets success back, has sent no request, and AuthToken is what it was
C1_ValidTokenNoOp ==
    \A t \in callers :
        (Returned(t) /\ frame[t].op \in {"checkToken", "Authenticate"} /\ HeldValid(t))
            => /\ frame[t].result = "ok"
               /\ sent[t] = <<>>
               /\ AuthToken = frame[t].startTok

\* the second of two successive checkToken calls found the token still valid
C1_Witness ==
    \E t \in callers :
        /\ Returned(t) /\ frame[t].op = "checkToken" /\ frame[t].prevOp = "checkToken"
        /\ HeldValid(t) /\ sent[t] = <<>>
        /\ AuthConfig.AuthType = AuthTypeBasic

\* C2: an operation that starts without a valid token under Basic, ClientCredentials or
\* PublicKeyJWT makes exactly one authentication attempt; when the gate lets it pass, the
\* token obtained is the client's token and the domain request carries it as Bearer
C2_OneAttemptThenBearer ==
    \A t \in callers :
        (/\ Returned(t) /\ frame[t].op \in DomainOps /\ frame[t].gate # "none"
         /\ ~HeldValid(t) /\ AuthConfig.AuthType \in NetworkStrategies)
            => /\ frame[t].attempts = 1
               /\ frame[t].gate = "nil" =>
                    /\ AuthToken = frame[t].obtained
                    /\ Len(sent[t]) >= 2
                    /\ LET r == sent[t][Len(sent[t])]
                       IN  r.kind = "domain" /\ r.hasAuth /\ r.bearer = frame[t].obtained.AccessToken

\* C3: after a failed authentication attempt the caller has an AuthenticationError and
\* AuthToken is what it was before the attempt
C3_FailureLeavesUnauthenticated ==
    \A t \in callers :
        (frame[t].outcome = "fail" /\ frame[t].pc \in {"idle", "crashed"})
            => /\ frame[t].result = "AuthenticationError"
               /\ AuthToken = frame[t].startTok
               /\ ~isTokenValid(AuthToken, frame[t].startNow)

\* C4: an operation whose checkToken returned an error has returned an
\* AuthenticationError and has sent no domain request
C4_GateErrorAborts ==
    \A t \in callers :
        (frame[t].op \in DomainOps /\ frame[t].gate = "err")
            => /\ frame[t].pc = "idle"
               /\ frame[t].result = "AuthenticationError"
               /\ NoDomainRequest(t)

\* the gate failed after the token request had gone out
C4_Witness ==
    \E t \in callers :
        /\ frame[t].op \in DomainOps /\ frame[t].gate = "err"
        /\ frame[t].pc = "idle" /\ Len(sent[t]) > 0

\* C5: AuthConfig is what the last With*Auth call alone produces: its strategy, its
\* arguments, and the zero value in every field the call does not set
C5_LastCallWins ==
    /\ lastWith.fn = "none" =>
          AuthConfig = authConfig(AuthTypeNone, "", "", "", "", "nil")
    /\ lastWith.fn = "WithAdminAuth" =>
          /\ AuthConfig.AuthType = AuthTypeBasic
          /\ AuthConfig.ClientID = lastWith.a /\ AuthConfig.ClientSecret = lastWith.b
          /\ AuthConfig.Authorizer = Server
          /\ AuthConfig.Audience = "" /\ AuthConfig.PrivateKey = "nil"
    /\ lastWith.fn = "WithClientKeyAndSecretAuth" =>
          /\ AuthConfig.AuthType = AuthTypeClientKeyAndSecret
          /\ AuthConfig.Authorizer = lastWith.a /\ AuthConfig.Audience = lastWith.b
          /\ AuthConfig.ClientID = lastWith.c /\ AuthConfig.ClientSecret = lastWith.d
          /\ AuthConfig.PrivateKey = "nil"
    /\ lastWith.fn = "WithPublicKeyAuth" =>
          /\ AuthConfig.AuthType = AuthTypePublicKey
          /\ AuthConfig.ClientID = lastWith.a /\ AuthConfig.PrivateKey = lastWith.b
          /\ AuthConfig.Audience = "datahub-client-sdk" /\ AuthConfig.Authorizer = Server
          /\ AuthConfig.ClientSecret = ""
    /\ lastWith.fn = "WithUserAuth" =>
          /\ AuthConfig.AuthType = AuthTypeUser
          /\ AuthConfig.Authorizer = lastWith.a /\ AuthConfig.Audience = lastWith.b
          /\ AuthConfig.ClientID = "" /\ AuthConfig.ClientSecret = ""
          /\ AuthConfig.PrivateKey = "nil"

\* WithUserAuth right after WithClientKeyAndSecretAuth with every value given
C5_Witness ==
    \E t \in callers :
        /\ frame[t].op = "WithUserAuth" /\ frame[t].prevOp = "WithClientKeyAndSecretAuth"
        /\ AuthConfig.AuthType = AuthTypeUser /\ AuthConfig.ClientID = ""

\* a value the configured strategy requires is missing
RequiredMissing(cfg) ==
    \/ /\ cfg.AuthType = AuthTypeBasic
       /\ "" \in {cfg.ClientID, cfg.ClientSecret, cfg.Authorizer}
    \/ /\ cfg.AuthType = AuthTypeClientKeyAndSecret
       /\ "" \in {cfg.ClientID, cfg.ClientSecret, cfg.Authorizer, cfg.Audience}
    \/ /\ cfg.AuthType = AuthTypePublicKey
       /\ ("" \in {cfg.ClientID, cfg.Authorizer, cfg.Audience} \/ cfg.PrivateKey = "nil")

\* C6: Authenticate under a configuration with a required value missing sends no
\* request and returns an error that names the missing value
C6_MisconfigurationFailsBeforeIO ==
    \A t \in callers :
        (frame[t].op = "Authenticate" /\ ~HeldValid(t) /\ RequiredMissing(AuthConfig))
            => /\ sent[t] = <<>>
               /\ frame[t].pc = "idle"
               /\ frame[t].result = "AuthenticationError"
               /\ frame[t].cause \in {"missing client id", "missing client secret",
                                      "missing authorizer url", "missing audience identifer",
                                      "missing private key"}

AuthOps == DomainOps \cup {"checkToken", "Authenticate"}

\* C7: under ClientCredentials a token request follows a discovery request to the
\* authorizer that succeeded, and goes to the endpoint discovery returned; after a
\* failed discovery there is no token request and the caller has an
\* AuthenticationError wrapping the discovery failure
C7_DiscoveryBeforeGrant ==
    \A t \in callers :
        (AuthConfig.AuthType = AuthTypeClientKeyAndSecret /\ frame[t].op \in AuthOps)
            => /\ \A i \in 1..Len(sent[t]) :
                    sent[t][i].kind = "token" =>
                        /\ i > 1
                        /\ sent[t][i-1].kind = "discovery"
                        /\ sent[t][i-1].base = AuthConfig.Authorizer
                        /\ frame[t].disc \in Endpoints
                        /\ sent[t][i].base = frame[t].disc
               /\ frame[t].disc = "fail" =>
                    /\ \A i \in 1..Len(sent[t]) : sent[t][i].kind # "token"
                    /\ frame[t].pc = "idle"
                    /\ frame[t].result = "AuthenticationError"
                    /\ frame[t].cause = "discovery failed"

\* the grant went to the endpoint that discovery returned
C7_Witness ==
    \E t \in callers :
        /\ AuthConfig.AuthType = AuthTypeClientKeyAndSecret /\ frame[t].op = "Authenticate"
        /\ Returned(t) /\ frame[t].outcome = "ok" /\ frame[t].disc = "ep2"
        /\ Len(sent[t]) = 2 /\ sent[t][2].kind = "token" /\ sent[t][2].base = "ep2"

\* C8: Authenticate under UserFlow without a valid token sends nothing, returns no
\* error and leaves the client with a nil token
C8_UserFlowStub ==
    \A t \in callers :
        (/\ Returned(t) /\ frame[t].op = "Authenticate"
         /\ AuthConfig.AuthType = AuthTypeUser /\ ~HeldValid(t))
            => /\ frame[t].result = "ok"
               /\ sent[t] = <<>>
               /\ AuthToken = NilToken

\* an invalid token that was held is gone
C8_Witness ==
    \E t \in callers :
        /\ Returned(t) /\ frame[t].op = "Authenticate"
        /\ AuthConfig.AuthType = AuthTypeUser
        /\ ~frame[t].startTok.isNil /\ ~HeldValid(t)
        /\ AuthToken = NilToken

\* the validity predicate as the specification words it
ValidAsSpecified(tok, t) ==
    /\ ~tok.isNil
    /\ tok.AccessToken # ""
    /\ (tok.Expiry = NoExpiry \/ t < tok.Expiry)

\* the validity predicate with the 10 seconds of early expiry
ValidWithMargin(tok, t) ==
    /\ ~tok.isNil
    /\ tok.AccessToken # ""
    /\ (tok.Expiry = NoExpiry \/ t + 10 <= tok.Expiry)

\* the instant the token endpoint's answer arrived
ReceivedAt(t) == frame[t].obtained.Expiry - frame[t].expiresIn

ExchangedWithExpiry(t) ==
    /\ Returned(t) /\ frame[t].outcome = "ok"
    /\ AuthConfig.AuthType \in {AuthTypeBasic, AuthTypeClientKeyAndSecret}
    /\ frame[t].expiresIn > 0

\* C9 as claimed: the gate takes a token for valid iff it is non-nil, has an access
\* token, and tracks no expiry or now < expiry; a token from a Basic or
\* ClientCredentials exchange with a future expiry is valid on arrival
C9_ValidityAsClaimed ==
    \A t \in callers :
        /\ frame[t].gateValid # "none" =>
              (frame[t].gateValid = "yes" <=> ValidAsSpecified(frame[t].startTok, frame[t].startNow))
        /\ ExchangedWithExpiry(t) => isTokenValid(frame[t].obtained, ReceivedAt(t))

\* C9 amended: the gate takes a token for valid iff it is non-nil, has an access token,
\* and tracks no expiry or now is no later than 10 seconds before the expiry; a token
\* from a Basic or ClientCredentials exchange is valid on arrival when its expiry is
\* more than 10 seconds ahead and not valid when it is less than 10 seconds ahead
C9_ValidityWithMargin ==
    \A t \in callers :
        /\ frame[t].gateValid # "none" =>
              (frame[t].gateValid = "yes" <=> ValidWithMargin(frame[t].startTok, frame[t].startNow))
        /\ ExchangedWithExpiry(t) =>
              /\ frame[t].expiresIn > 10 => isTokenValid(frame[t].obtained, ReceivedAt(t))
              /\ frame[t].expiresIn < 10 => ~isTokenValid(frame[t].obtained, ReceivedAt(t))

\* the gate refused a token whose expiry still lay ahead
C9_Witness ==
    \E t \in callers :
        /\ frame[t].gateValid = "no"
        /\ ~frame[t].startTok.isNil /\ frame[t].startTok.AccessToken # ""
        /\ frame[t].startTok.Expiry # NoExpiry
        /\ frame[t].startNow < frame[t].startTok.Expiry

\* C10: nothing serialises check-then-refresh: a caller whose token request is answered
\* stores its token whatever another caller stored in the meantime
C10_LaterResultOverwrites ==
    [][\A t \in Callers :
          (frame[t].pc \in {"token", "certificate"} /\ frame'[t].outcome = "ok")
              => AuthToken' = frame'[t].obtained]_vars

\* both callers found no token, both sent a token request, and the second answer
\* replaced the still valid token of the first
C10_Witness ==
    /\ \A t \in {1, 2} :
          /\ Returned(t) /\ frame[t].op = "checkToken" /\ frame[t].outcome = "ok"
          /\ frame[t].startTok = NilToken
          /\ \E i \in 1..Len(sent[t]) : sent[t][i].kind = "token"
    /\ frame[1].obtained # frame[2].obtained
    /\ isTokenValid(frame[1].obtained, now)
    /\ AuthToken = frame[2].obtained

\* ---------------------------------------------------------------- streams
\* a stream has been handed out and no Next() on it has failed so far
Streaming == es.kind # "none"
Undisturbed == \A i \in 1..Len(returned) : returned[i] \notin {"error", "panic"}

\* C11: over a server result of N records delivered in pages of any size >= 1, the
\* successive Next() calls of an entity, changes or query-result stream return the N
\* records once each in server order, across page boundaries, and the calls after
\* the N-th return no item and no error (as long as no page fetch fails)
C11_EachRecordOnceInOrder ==
    (Streaming /\ Undisturbed) =>
        \A i \in 1..Len(returned) :
            returned[i] = IF i <= Len(records) THEN records[i] ELSE "none"

\* two records in pages of one: Next() gave entity-1, entity-2, then no item
C11_Witness ==
    /\ Streaming
    /\ es.take = 1
    /\ Len(records) = 2
    /\ Len(pages) >= 3
    /\ returned = <<Entity(1), Entity(2), "none">>

\* the Next() that just returned fetched a page, and the page was empty
FetchedEmpty(t) ==
    /\ Returned(t)
    /\ frame[t].op = "Next"
    /\ frame[t].result = "ok"
    /\ sent[t] # <<>>
    /\ es.currentCollection.Entities = <<>>

\* C12: the end of the sequence is "no item", never an error, and it is stable: a
\* Next() whose newly fetched batch is empty returns no item with a nil error, and
\* once a Next() has returned no item every later Next() on the iterator returns no
\* item again
C12_EndIsStable ==
    Streaming =>
        /\ \A t \in Callers : FetchedEmpty(t) => returned[Len(returned)] = "none"
        /\ \A i, j \in 1..Len(returned) :
               (i < j /\ returned[i] = "none") => returned[j] = "none"

\* the page response that immediately precedes the i-th page request of the stream
PrecedingResponse(i) ==
    pages[CHOOSE j \in 1..(i - 1) :
            /\ pages[j].answered
            /\ \A k \in (j + 1)..(i - 1) : ~pages[k].answered]

\* C13: every page request an iterator issues after its initial fetch carries,
\* unmodified, exactly the continuation token that came with the immediately
\* preceding page response of that iterator, never an older or a made-up one
C13_ContinuationReplayed ==
    \A i \in 2..Len(pages) :
        /\ pages[i].op = "Next"
        /\ ~PrecedingResponse(i).cont.isNil
        /\ pages[i].cursor = PrecedingResponse(i).cont.Token

\* the third page was requested with the continuation of the second, which differs
\* from the one the second was requested with
C13_Witness ==
    /\ Streaming
    /\ Len(pages) >= 3
    /\ pages[2].answered
    /\ pages[3].cursor = pages[2].cont.Token
    /\ pages[3].cursor # pages[2].cursor
    /\ pages[2].cursor # pages[1].cursor

\* the continuation that came with the most recent successful fetch of the stream
LatestContinuation ==
    pages[CHOOSE j \in 1..Len(pages) :
            /\ pages[j].answered
            /\ \A k \in (j + 1)..Len(pages) : ~pages[k].answered].cont

\* C14: at every point of an iteration Token() returns the continuation received
\* with the batch the iterator holds, that is the continuation of the most recent
\* successful fetch, the initial fetch included
C14_TokenIsLatestContinuation ==
    (Streaming /\ ~crashed) => StreamToken = LatestContinuation

\* the page fetch of the caller's Next() is coming back with an error
FetchFails(t) ==
    /\ frame[t].op = "Next"
    /\ frame[t].pc \in {"response", "return"}
    /\ frame'[t].pc = "idle"
    /\ frame'[t].result # "ok"

\* C26: when the fetch of the next batch fails, Next() returns the error and the
\* iterator's batch, position and continuation are what they were, so that Token()
\* still returns the last continuation and a later Next() asks for the same page
C26_FailedFetchLeavesIterator ==
    [][\A t \in Callers :
          FetchFails(t) =>
              /\ returned' = Append(returned, "error")
              /\ es' = es
              /\ ~es'.currentCollection.isNil
              /\ ~crashed']_vars

\* ------------------------------------------------------------ resumption
\* a fresh iterator has been started from Token() of an earlier one
Resumed == es.kind # "none" /\ es.before >= 0

\* the records among what Next() calls returned
IsRecord(r) == r \notin {"none", "error", "panic"}
RecordsOf(results) == SelectSeq(results, IsRecord)

\* what the first iterator had returned when its Token() was taken, and what the
\* fresh iterator has returned since
First == RecordsOf(SubSeq(returned, 1, es.before))
Second == RecordsOf(SubSeq(returned, es.before + 1, Len(returned)))

\* the fresh iterator has returned the records that follow the first n, in order
YieldsAfter(n) ==
    \A i \in 1..Len(Second) :
        /\ n + i <= Len(records)
        /\ Second[i] = records[n + i]

\* C27 as claimed: a fresh iterator started from Token() of an iterator that has
\* returned k records yields exactly the records the first one had not returned,
\* in order, for every k
C27_ResumeExact ==
    Resumed => YieldsAfter(Len(First))

\* C27 amended: the fresh iterator yields, in order, exactly the records that follow
\* the batch the first iterator held: it repeats none, and it skips the records of
\* that batch the first had not returned (none when the batch was used up)
C27_ResumeAfterBatch ==
    Resumed => YieldsAfter(Len(First) + es.left)

\* resumed in the middle of a page of two: the first iterator had returned entity-1,
\* the fresh one returned entity-3 and then no item
C27_Witness ==
    /\ Resumed
    /\ es.take = 2
    /\ es.left = 1
    /\ returned = <<Entity(1), Entity(3), "none">>

\* ----------------------------------------------------------- key material
\* the two keys have the same modulus and public exponent
SameKey(a, b) == a.N = b.N /\ a.E = b.E

\* the files on disk are those a successful SaveKeypair wrote, and can be read
SavedAndReadable ==
    /\ keys.intact
    /\ disk.node_key.readable
    /\ disk.node_key_pub.readable

C16_KeyFileErrorsAreParameterErrors ==
    \A t \in Callers :
        (Returned(t) /\ frame[t].op \in {"LoadKeypair", "SaveKeypair"} /\ keys.targetMissing)
            => frame[t].result = "ParameterError"

\* C30: SaveKeypair is all-or-nothing: when it returns an error neither node_key nor
\* node_key.pub has been created or modified; when it returns success both files
\* hold the PEM of the given private and public key
C30_SaveAllOrNothing ==
    [][\A t \in Callers :
         SaveKeypair(t) =>
             IF frame'[t].result = "ok"
                 THEN /\ disk'.node_key.content = exportRsaPrivateKeyAsPem(keys.generated)
                      /\ disk'.node_key_pub.content = exportRsaPublicKeyAsPem(PublicKey(keys.generated))
                 ELSE /\ disk'.node_key = disk.node_key
                      /\ disk'.node_key_pub = disk.node_key_pub]_vars

\* -------------------------------------------------------------- retries
\* the domain requests the caller's current operation has sent
DomainRequests(t) == {i \in 1..Len(sent[t]) : sent[t][i].kind = "domain"}

\* an authentication attempt of the operation failed and the operation went on to
\* send its domain request
SentAfterFailure(t) == frame[t].outcome = "fail" /\ DomainRequests(t) # {}

\* C17 as claimed: within one SDK operation at most one authentication attempt is
\* made and at most one domain request is sent (one per page fetch for iterators),
\* and after a failure of either the operation sends nothing more
C17_NoRetries ==
    \A t \in Callers :
        /\ frame[t].attempts <= 1
        /\ Cardinality(DomainRequests(t)) <= 1
        /\ ~SentAfterFailure(t)

\* GetEntitiesStream and GetChangesStream pass the token gate twice: their own, and
\* the one of the GetEntities / GetChanges call that fetches the initial page
Gates(o) == IF o \in {"GetEntitiesStream", "GetChangesStream"} THEN 2 ELSE 1

\* C17 amended: an operation makes at most one authentication attempt per token gate
\* it passes, the second one of a stream opener only at its second gate after the
\* first succeeded; it sends at most one domain request (one per page fetch for
\* iterators); after a failure of either it sends nothing more
C17_NoRetriesPerGate ==
    \A t \in Callers :
        /\ frame[t].attempts <= Gates(frame[t].op)
        /\ frame[t].attempts = 2 => frame[t].callee # "none"
        /\ Cardinality(DomainRequests(t)) <= 1
        /\ ~SentAfterFailure(t)

\* GetEntitiesStream authenticated at both gates, sent its one page request, and
\* returned the failure of that request
C17_Witness ==
    /\ Returned(1)
    /\ frame[1].op = "GetEntitiesStream"
    /\ frame[1].attempts = 2
    /\ Cardinality(DomainRequests(1)) = 1
    /\ frame[1].result = "RequestError"

\* ------------------------------------------------ javascript query results
\* C18: over a result array of N objects the first N Next() calls of a
\* QueryResultIterator return the objects in stream order, and every Next() after
\* that, however many are made, returns nil and no error until Close is called
C18_ObjectsThenNil ==
    (qri.state # "none" /\ qri.body = ResultArray) =>
        \A i \in 1..Len(returned) :
            returned[i] = IF i <= Len(records) THEN records[i] ELSE "none"

\* two objects were returned, then nil twice
C18_Witness ==
    /\ qri.state = "open"
    /\ qri.body = ResultArray
    /\ Len(records) = 2
    /\ returned = <<Entity(1), Entity(2), "none", "none">>

\* ------------------------------------------------------------ validation
\* the dataset reads of the claim, called with an empty dataset name
EmptyNameRead(t) ==
    /\ frame[t].op \in {"GetDataset", "GetChanges", "GetChangesStream", "GetEntities", "GetEntitiesStream"}
    /\ frame[t].arg = ""

\* C19: GetDataset, GetChanges, GetChangesStream, GetEntities and GetEntitiesStream
\* called with an empty dataset name each return a ParameterError, without
\* authenticating and without sending any HTTP request
C19_EmptyNameShortCircuits ==
    \A t \in Callers :
        EmptyNameRead(t) =>
            /\ frame[t].attempts = 0
            /\ sent[t] = <<>>
            /\ Returned(t) => frame[t].result = "ParameterError"

\* ------------------------------------------------------------------ jobs
\* the paths of the domain requests the caller's current operation has sent
RequestedPaths(t) == {sent[t][i].path : i \in DomainRequests(t)}

\* C20: a successful KillJob(id) sends the server the kill request for job id: its
\* request targets the job's kill endpoint and differs from the requests of
\* ResumeJob(id), PauseJob(id) and the run operations for the same id
C20_KillJobRequestsKill ==
    \A t \in Callers :
        (Returned(t) /\ frame[t].op = "KillJob" /\ frame[t].result = "ok") =>
            /\ RequestedPaths(t) = {"/job/" \o frame[t].arg \o "/kill"}
            /\ \A o \in JobOps \ {"KillJob"} : PathOf(o, frame[t].arg) \notin RequestedPaths(t)

\* --------------------------------------------------------- JWT assertions
\* the assertion the token request the caller has just sent carries
SentAssertion(t) == sent'[t][Len(sent'[t])].assertion

\* C21: every JWT assertion built for the PublicKeyJWT grant has sub = the configured
\* clientID, aud = the configured audience, exp = build time + 60 seconds, and a jti
\* generated for that call: it differs from the jti of every assertion built before
\* (in the same second or by an earlier attempt), and the assertion sent is the one
\* just built, never an earlier one
C21_AssertionClaims ==
    [][\A t \in Callers :
          (frame[t].pc # "certificate" /\ frame'[t].pc = "certificate") =>
              /\ SentAssertion(t).sub = AuthConfig.ClientID
              /\ SentAssertion(t).aud = AuthConfig.Audience
              /\ SentAssertion(t).exp = now + 60
              /\ \A i \in 1..Len(assertions) : assertions[i] # SentAssertion(t).jti
              /\ assertions' = Append(assertions, SentAssertion(t).jti)]_vars

\* a second attempt built its assertion in the same second as the first, which had
\* failed, and the token request carrying it is in flight
C21_Witness ==
    /\ frame[1].pc = "certificate"
    /\ now = 0
    /\ Len(assertions) = 2
    /\ sent[1][Len(sent[1])].assertion.jti = assertions[2]
    /\ sent[1][Len(sent[1])].assertion.exp = 60

\* the caller's operation posted a client assertion to the token endpoint
PostedAssertion(t) == \E i \in 1..Len(sent[t]) : sent[t][i].assertion # NoAssertion

\* C22: under PublicKeyJWT a token request that fails (transport error, a body that
\* is no JSON, a JSON body without a string access_token such as the error body of an
\* error status) comes back to the caller as an AuthenticationError, without a crash,
\* and AuthToken is what it was before the attempt
C22_CertificateFailureSurfaces ==
    \A t \in callers :
        (PostedAssertion(t) /\ frame[t].outcome = "fail")
            => /\ ~crashed
               /\ frame[t].pc = "idle"
               /\ frame[t].result = "AuthenticationError"
               /\ AuthToken = frame[t].startTok

\* the caller's operation sent a request to a token or discovery endpoint
AuthRequests(t) == {i \in 1..Len(sent[t]) : sent[t][i].kind \in {"token", "discovery"}}

\* the operation found the client holding a token with an access token and no expiry
HeldWithoutExpiry(t) ==
    /\ ~frame[t].startTok.isNil
    /\ frame[t].startTok.AccessToken # ""
    /\ frame[t].startTok.Expiry = NoExpiry

\* C24: the token a PublicKeyJWT authentication stores records no expiry, and an
\* operation that finds the client holding such a token with a non-empty access
\* token makes no authentication attempt and sends no token request, at whatever
\* time it is called, and leaves the token in place
C24_CertificateTokenCached ==
    \A t \in callers :
        /\ (PostedAssertion(t) /\ frame[t].outcome = "ok") =>
               /\ frame[t].obtained.Expiry = NoExpiry
               /\ AuthToken = frame[t].obtained
        /\ (frame[t].op \in AuthOps /\ HeldWithoutExpiry(t)) =>
               /\ frame[t].attempts = 0
               /\ AuthRequests(t) = {}
               /\ AuthToken = frame[t].startTok

\* the clock has advanced, and the second of two successive checkToken calls found
\* the token of the certificate exchange in place and sent nothing
C24_Witness ==
    /\ Returned(1)
    /\ frame[1].op = "checkToken"
    /\ frame[1].prevOp = "checkToken"
    /\ frame[1].startTok = Token("a", NoExpiry)
    /\ frame[1].startNow >= TickStep
    /\ assertions # <<>>
    /\ sent[1] = <<>>

\* ------------------------------------------------------ bearer credential
\* the token the client holds passed the validity check of the caller's operation:
\* the gate found it valid, or the gate's authentication obtained it
PassedCheck(t) ==
    \/ frame[t].gateValid = "yes" /\ AuthToken = frame[t].startTok
    \/ frame[t].outcome = "ok" /\ AuthToken = frame[t].obtained

\* the domain request the caller is sending
SentRequest(t) == sent'[t][Len(sent'[t])]

\* C25: when an operation sends its domain request the client holds a token that
\* passed the validity check of that operation, the token's recorded expiry has not
\* passed, and the request carries the token's access token as Bearer; only under
\* strategy None with no token injected does the request carry no Authorization
C25_BearerIsCheckedToken ==
    [][\A t \in Callers :
          (frame[t].pc = "request" /\ frame'[t].pc = "response") =>
              IF AuthConfig.AuthType = AuthTypeNone /\ AuthToken.isNil
                 THEN ~SentRequest(t).hasAuth
                 ELSE /\ ~AuthToken.isNil
                      /\ PassedCheck(t)
                      /\ AuthToken.Expiry = NoExpiry \/ now <= AuthToken.Expiry
                      /\ SentRequest(t).hasAuth
                      /\ SentRequest(t).bearer = AuthToken.AccessToken]_vars

\* ----------------------------------------------------- strategy selection
\* a With*Auth call is made in this step
Configuring == lastWith' # lastWith \/ AuthConfig' # AuthConfig

\* C28: a With*Auth call changes AuthConfig only: AuthToken and Server are what they
\* were and nothing is sent; WithExistingToken leaves AuthConfig as it was.  So an
\* operation that finds a token that is still valid, whatever strategy it was
\* obtained under, makes no authentication attempt and sends that token
C28_SelectionChangesConfigOnly ==
    /\ [][/\ Configuring =>
               (/\ AuthToken' = AuthToken
                /\ Server' = Server
                /\ assertions' = assertions
                /\ \A t \in Callers : sent'[t] = <<>> \/ sent'[t] = sent[t])
          /\ (AuthToken' # AuthToken) => (AuthConfig' = AuthConfig)]_vars
    /\ [](\A t \in callers :
             (frame[t].op \in DomainOps /\ HeldValid(t)) =>
                 /\ frame[t].attempts = 0
                 /\ AuthRequests(t) = {}
                 /\ \A i \in DomainRequests(t) : sent[t][i].bearer = frame[t].startTok.AccessToken)

\* the token of a Basic or ClientCredentials exchange, still valid, was sent by an
\* operation called after the strategy had been switched to PublicKeyJWT
C28_Witness ==
    /\ Returned(1)
    /\ frame[1].op \in DomainOps
    /\ frame[1].result = "ok"
    /\ AuthConfig.AuthType = AuthTypePublicKey
    /\ frame[1].startTok = Token("a", 15)
    /\ HeldValid(1)
    /\ Len(sent[1]) = 1
    /\ sent[1][1].bearer = "a"

\* ------------------------------------------------------- failed requests
\* the caller's domain request fails in this step
RequestFails(t) ==
    /\ frame[t].pc = "response"
    /\ frame[t].op \in DomainOps
    /\ frame'[t].result = "RequestError"

\* C29: the step in which a domain request fails leaves AuthToken as it was, sends
\* nothing and returns the failure; the operation called next, while the token is
\* valid by its expiry, passes the gate without Authenticate being called and sends
\* the access token the failed request carried
C29_FailureKeepsToken ==
    /\ [][\A t \in callers :
             RequestFails(t) =>
                 /\ AuthToken' = AuthToken
                 /\ sent'[t] = sent[t]
                 /\ assertions' = assertions
                 /\ frame'[t].pc = "idle"
                 /\ frame'[t].attempts = frame[t].attempts]_vars
    /\ [](\A t \in callers :
             (/\ frame[t].failedWith # "none"
              /\ ~frame[t].startTok.isNil
              /\ HeldValid(t)) =>
                 /\ frame[t].gateValid = "yes"
                 /\ frame[t].attempts = 0
                 /\ AuthRequests(t) = {}
                 /\ \A i \in DomainRequests(t) : sent[t][i].bearer = frame[t].failedWith)

\* a request with token "a" failed, and the operation called after it sent "a" again
C29_Witness ==
    /\ Returned(1)
    /\ frame[1].op \in DomainOps
    /\ frame[1].failedWith = "a"
    /\ ~frame[1].startTok.isNil
    /\ HeldValid(1)
    /\ Len(sent[1]) = 1
    /\ sent[1][1].kind = "domain"
    /\ sent[1][1].bearer = "a"

\* ------------------------------------------------------- response bodies
\* C23: when an authentication or a domain operation that is no iterator call has
\* returned, on any path (success, non-2xx status, read error, decode error), every
\* response body it acquired is closed
C23_BodiesClosedOnReturn ==
    \A t \in Callers :
        (Returned(t) /\ frame[t].op \in AuthOps) => frame[t].bodies = 0

TypeOK ==
    /\ AuthToken.AccessToken \in AccessTokens \cup {""}
    /\ \A t \in Callers : Len(sent[t]) <= 3

====
